---- MODULE Spec2Model ----
(***************************************************************************)
(* Model of src/ind/ind.py: a train register kept in a DuckDB file.        *)
(*                                                                         *)
(* The store is the file's content: whether the schema exists, the rows of *)
(* the tables types and trains in storage order, and the last value issued *)
(* by each of the sequences type_st and train_st.  Every operation opens   *)
(* its own connection; DuckDB connections run in autocommit mode and the   *)
(* code never issues BEGIN, so every statement is its own transaction and  *)
(* the conn.commit() of add_train finds nothing to commit.                 *)
(***************************************************************************)
EXTENDS Integers, Sequences, FiniteSets, TLC

VARIABLES
    schema,     \* TRUE once the sequences and the tables exist
    types,      \* rows of table types:  [type_id, type_title]
    trains,     \* rows of table trains: [train_id, train_destination, type_id, train_num]
    type_st,    \* last value issued by sequence type_st (0: none yet, START 1)
    train_st,   \* last value issued by sequence train_st (0: none yet, START 1)
    open,       \* connections opened by an operation and not closed by it
    hist        \* the calls made so far, each with its outcome

vars == <<schema, types, trains, type_st, train_st, open, hist>>

\* Number of calls explored.
MaxOps == 4

\* A Python int, which has no width, written in base 2^16 as hi * 2^16 + lo
\* with 0 <= lo < 2^16, so that values beyond 32 bits can be told apart.
PyInt(h, l) == [hi |-> h, lo |-> l]

\* Whether a Python int fits a DuckDB INTEGER column (signed, 32 bit):
\* -2^31 <= hi * 2^16 + lo < 2^31.
FitsInteger(n) == n.hi >= -(2^15) /\ n.hi < 2^15

\* Arguments the calls are made with.
Destinations == {"Moscow", "Kazan"}
InsertTitles == {"Express", "express"}
Titles == InsertTitles \cup {"Local"}
\* 101 and 2147483648 = 2^31, the first value an INTEGER column cannot hold.
Nums == {PyInt(0, 101), PyInt(2^15, 0)}

----------------------------------------------------------------------------
(* SQL building blocks *)

\* Faulty variant of TitleEq: a case-insensitive comparison.
Lower(s) == IF s = "Express" THEN "express" ELSE IF s = "Local" THEN "local" ELSE s
TitleEqNoCase(a, b) == Lower(a) = Lower(b)

\* type_title = ? : binary, case-sensitive string equality.
TitleEq(a, b) == a = b

\* Faulty variant of NextVal: a sequence that counts downwards.
NextValDown(s) == s - 1

\* nextval('...') of a sequence created with START 1 (increment 1).
NextVal(s) == s + 1

\* Faulty variant of CurrVal: the value the sequence had before the last nextval.
CurrValStale(s) == s - 1

\* SELECT currval('type_st'): the value last issued.
CurrVal(s) == s

MinOf(S) == CHOOSE x \in S : \A y \in S : x <= y

\* Faulty variant of LookupType: the lookup never finds a row.
LookupTypeNever(ts, typ) == [found |-> FALSE, type_id |-> 0]

\* Faulty variant of LookupType: the query without its WHERE clause.
LookupTypeFirst(ts, typ) ==
    IF ts = <<>> THEN [found |-> FALSE, type_id |-> 0]
    ELSE [found |-> TRUE, type_id |-> ts[1].type_id]

\* SELECT type_id FROM types WHERE type_title = ?  followed by fetchone():
\* the first matching row in storage order, or None.
LookupType(ts, typ) ==
    LET M == {i \in 1..Len(ts) : TitleEq(ts[i].type_title, typ)}
    IN  IF M = {} THEN [found |-> FALSE, type_id |-> 0]
        ELSE [found |-> TRUE, type_id |-> ts[MinOf(M)].type_id]

\* Faulty variant of InsertType: the new row replaces the table's rows.
InsertTypeReplace(ts, id, title) == <<[type_id |-> id, type_title |-> title]>>

\* INSERT INTO types VALUES (id, title), once the constraints are passed.
InsertType(ts, id, title) == Append(ts, [type_id |-> id, type_title |-> title])

\* Constraints of table types: type_id INTEGER PRIMARY KEY.
InsertTypeErr(ts, id, title) ==
    IF \E i \in 1..Len(ts) : ts[i].type_id = id THEN "constraint" ELSE "none"

\* Constraints of table trains, for the row (id, destination, type_id, num):
\* train_num INTEGER (32 bit), train_id PRIMARY KEY,
\* FOREIGN KEY(type_id) REFERENCES types(type_id).
InsertTrainErr(ts, trs, id, destination, type_id, num) ==
    IF ~FitsInteger(num) THEN "conversion"
    ELSE IF \E i \in 1..Len(trs) : trs[i].train_id = id THEN "constraint"
    ELSE IF ~ \E i \in 1..Len(ts) : ts[i].type_id = type_id THEN "constraint"
    ELSE "none"

\* INSERT INTO trains (train_id, train_destination, type_id, train_num).
InsertTrain(trs, id, destination, type_id, num) ==
    Append(trs, [train_id |-> id, train_destination |-> destination,
                 type_id |-> type_id, train_num |-> num])

----------------------------------------------------------------------------
(* The queries *)

Record(tr, ty) ==
    [destination |-> tr.train_destination, typ |-> ty.type_title, num |-> tr.train_num]

\* Faulty variant of JoinTypes: the join without its ON condition.
JoinTypesCross(tr, ts) == [i \in 1..Len(ts) |-> Record(tr, ts[i])]

\* The rows one trains row contributes to
\* trains INNER JOIN types ON types.type_id = trains.type_id.
JoinTypes(tr, ts) ==
    LET Match(ty) == ty.type_id = tr.type_id
        m == SelectSeq(ts, Match)
    IN  [i \in 1..Len(m) |-> Record(tr, m[i])]

RECURSIVE Join(_, _)
Join(trs, ts) ==
    IF trs = <<>> THEN <<>> ELSE JoinTypes(Head(trs), ts) \o Join(Tail(trs), ts)

\* select_all: the rows of the join, as dictionaries.
SelectAllRows == Join(trains, types)

\* select_by_type: the join restricted by WHERE types.type_title = ?.
ByType(trs, ts, train_type) ==
    LET Wanted(ty) == TitleEq(ty.type_title, train_type)
    IN  Join(trs, SelectSeq(ts, Wanted))

SelectByTypeRows(train_type) == ByType(trains, types, train_type)

----------------------------------------------------------------------------
(* The operations *)

Call(op, args, err, rows) == [op |-> op, args |-> args, err |-> err, rows |-> rows]

Init ==
    /\ schema = FALSE
    /\ types = <<>>
    /\ trains = <<>>
    /\ type_st = 0
    /\ train_st = 0
    /\ open = 0
    /\ hist = <<>>

\* Faulty variant of CreateDb: CREATE OR REPLACE instead of CREATE ... IF NOT EXISTS.
CreateDbReplace ==
    /\ Len(hist) < MaxOps
    /\ schema' = TRUE
    /\ types' = <<>>
    /\ trains' = <<>>
    /\ type_st' = 0
    /\ train_st' = 0
    /\ open' = open
    /\ hist' = Append(hist, Call("create_db", <<>>, "none", <<>>))

\* create_db: four CREATE ... IF NOT EXISTS statements, then conn.close().
CreateDb ==
    /\ Len(hist) < MaxOps
    /\ schema' = TRUE
    /\ UNCHANGED <<types, trains, type_st, train_st, open>>
    /\ hist' = Append(hist, Call("create_db", <<>>, "none", <<>>))

\* What add_train's statements do to the store, statement by statement; each
\* statement that succeeds is committed on its own.  drawn says whether the
\* failing statement was the one that draws from train_st.
AddTrainResult(destination, typ, num) ==
    LET row == LookupType(types, typ)
        new_id == NextVal(type_st)
        terr == IF row.found THEN "none" ELSE InsertTypeErr(types, new_id, typ)
        types1 == IF ~row.found /\ terr = "none"
                  THEN InsertType(types, new_id, typ) ELSE types
        type_st1 == IF row.found THEN type_st ELSE new_id
        type_id == IF row.found THEN row.type_id ELSE CurrVal(type_st1)
        train_id == NextVal(train_st)
        rerr == InsertTrainErr(types1, trains, train_id, destination, type_id, num)
    IN  IF ~schema
        THEN [err |-> "catalog", types |-> types, trains |-> trains,
              type_st |-> type_st, drawn |-> FALSE]
        ELSE IF terr # "none"
        THEN [err |-> terr, types |-> types1, trains |-> trains,
              type_st |-> type_st1, drawn |-> FALSE]
        ELSE IF rerr # "none"
        THEN [err |-> rerr, types |-> types1, trains |-> trains,
              type_st |-> type_st1, drawn |-> TRUE]
        ELSE [err |-> "none", types |-> types1,
              trains |-> InsertTrain(trains, train_id, destination, type_id, num),
              type_st |-> type_st1, drawn |-> TRUE]

\* add_train.  An exception leaves the function before conn.close().  Whether
\* a value drawn from train_st by a statement that then fails stays drawn is
\* the storage engine's choice: both outcomes are explored.
AddTrain(destination, typ, num) ==
    /\ Len(hist) < MaxOps
    /\ LET r == AddTrainResult(destination, typ, num)
       IN  /\ types' = r.types
           /\ trains' = r.trains
           /\ type_st' = r.type_st
           /\ \E kept \in BOOLEAN :
                train_st' = IF r.err = "none" \/ (r.drawn /\ kept)
                            THEN NextVal(train_st) ELSE train_st
           /\ open' = IF r.err = "none" THEN open ELSE open + 1
           /\ hist' = Append(hist, Call("add_train", <<destination, typ, num>>, r.err, <<>>))
    /\ UNCHANGED schema

\* select_all.  Without the tables the SELECT raises and conn.close() is skipped.
SelectAll ==
    /\ Len(hist) < MaxOps
    /\ open' = IF schema THEN open ELSE open + 1
    /\ hist' = Append(hist, IF schema
                            THEN Call("select_all", <<>>, "none", SelectAllRows)
                            ELSE Call("select_all", <<>>, "catalog", <<>>))
    /\ UNCHANGED <<schema, types, trains, type_st, train_st>>

\* select_by_type.
SelectByType(train_type) ==
    /\ Len(hist) < MaxOps
    /\ open' = IF schema THEN open ELSE open + 1
    /\ hist' = Append(hist, IF schema
                            THEN Call("select_by_type", <<train_type>>, "none",
                                      SelectByTypeRows(train_type))
                            ELSE Call("select_by_type", <<train_type>>, "catalog", <<>>))
    /\ UNCHANGED <<schema, types, trains, type_st, train_st>>

AddTrainAny == \E d \in Destinations, t \in InsertTitles, n \in Nums : AddTrain(d, t, n)
SelectByTypeAny == \E t \in Titles : SelectByType(t)

Next == CreateDb \/ AddTrainAny \/ SelectAll \/ SelectByTypeAny

Spec == Init /\ [][Next]_vars

----------------------------------------------------------------------------
(* Vocabulary of the properties *)

Last == hist[Len(hist)]
IsOkAdd(e) == e.op = "add_train" /\ e.err = "none"
ArgRecord(e) == [destination |-> e.args[1], typ |-> e.args[2], num |-> e.args[3]]

\* The step just taken made the call e' (the entry appended to hist).
Made == hist'[Len(hist')]
StepOf(op) == Len(hist') = Len(hist) + 1 /\ Made.op = op

\* The arguments of the add_train calls that succeeded, in call order.
Added ==
    LET ok == SelectSeq(hist, IsOkAdd)
    IN  [i \in 1..Len(ok) |-> ArgRecord(ok[i])]

Count(q, r) == Cardinality({i \in 1..Len(q) : q[i] = r})
SameBag(a, b) ==
    /\ Len(a) = Len(b)
    /\ \A i \in 1..Len(a) : Count(a, a[i]) = Count(b, a[i])

\* The records of a result whose typ is exactly s.
OfType(rows, s) == LET Is(r) == r.typ = s IN SelectSeq(rows, Is)

TitleRows(ts, s) == {i \in 1..Len(ts) : ts[i].type_title = s}
Extends(new, old, k) == Len(new) = Len(old) + k /\ SubSeq(new, 1, Len(old)) = old

----------------------------------------------------------------------------
(* C1 *)

C1_Step ==
    (StepOf("add_train") /\ Made.err = "none") =>
        LET typ == Made.args[2]
            known == TitleRows(types, typ)
        IN  /\ Extends(trains', trains, 1)
            /\ IF known = {}
               THEN /\ Extends(types', types, 1)
                    /\ types'[Len(types')].type_title = typ
               ELSE /\ types' = types
                    /\ \A i \in known : trains'[Len(trains')].type_id = types[i].type_id

\* C1: a successful add_train with an unseen type title adds exactly one row
\* to types and one to trains; with a known title it adds no row to types and
\* one row to trains, whose type_id is that of the existing type row.
C1_AddTrainRows == [][C1_Step]_vars

\* Two successful add_train calls with the same title: one type row, two trains.
C1_Witness ==
    /\ Len(hist) >= 3
    /\ IsOkAdd(hist[Len(hist) - 1]) /\ IsOkAdd(Last)
    /\ hist[Len(hist) - 1].args[2] = Last.args[2]
    /\ Len(types) = 1 /\ Len(trains) = 2

----------------------------------------------------------------------------
(* C2 *)

\* C2: every trains row has the type_id of some types row, in every state,
\* also after add_train calls that failed part-way.
C2_ReferentialIntegrity ==
    \A i \in 1..Len(trains) : \E j \in 1..Len(types) :
        types[j].type_id = trains[i].type_id

\* Trains of one type exist, and a failed add_train has left a second type.
C2_Witness ==
    /\ Len(trains) >= 1 /\ Len(types) = 2
    /\ \E i \in 1..Len(hist) : hist[i].op = "add_train" /\ hist[i].err = "conversion"
    /\ \E j \in 1..Len(types) : \A i \in 1..Len(trains) :
          trains[i].type_id # types[j].type_id

----------------------------------------------------------------------------
(* C3 *)

\* C3: no two rows of types have the same type_title.
C3_UniqueTitles ==
    \A i, j \in 1..Len(types) :
        types[i].type_title = types[j].type_title => i = j

\* Two trains with the same destination, type and number both exist, beside
\* a second type.
C3_Witness ==
    /\ Len(types) = 2
    /\ \E i, j \in 1..Len(trains) :
          /\ i # j
          /\ trains[i].train_destination = trains[j].train_destination
          /\ trains[i].type_id = trains[j].type_id
          /\ trains[i].train_num = trains[j].train_num

----------------------------------------------------------------------------
(* C4 *)

\* C4: an add_train call that fails leaves the rows of types and of trains as
\* they were before the call.
C4_FailedAddLeavesStore ==
    [][(StepOf("add_train") /\ Made.err # "none") => (types' = types /\ trains' = trains)]_vars

----------------------------------------------------------------------------
(* C5 *)

\* C5: on an initialized store select_all returns one record per successful
\* add_train call, the same multiset as the calls' arguments, and the empty
\* list without an error when there was none.
C5_SelectAllIsAdded ==
    /\ schema => SameBag(SelectAllRows, Added)
    /\ (hist # <<>> /\ schema /\ Last.op = "select_all") =>
          /\ Last.err = "none"
          /\ Len(Last.rows) = Len(Added)
          /\ SameBag(Last.rows, Added)

\* select_all has returned two records of different types after two
\* successful add_train calls.
C5_Witness ==
    /\ hist # <<>> /\ Last.op = "select_all" /\ Last.err = "none"
    /\ Len(Last.rows) = 2 /\ Last.rows[1].typ # Last.rows[2].typ

----------------------------------------------------------------------------
(* C6 *)

\* C6: select_by_type(s) returns exactly the records of select_all whose typ
\* equals s, letter case included.
C6_SelectByTypeFilters ==
    /\ \A s \in Titles : SameBag(SelectByTypeRows(s), OfType(SelectAllRows, s))
    /\ (hist # <<>> /\ Last.op = "select_by_type" /\ Last.err = "none") =>
          SameBag(Last.rows, OfType(SelectAllRows, Last.args[1]))

\* select_by_type("express") has returned nothing although a train of type
\* "Express" is stored.
C6_Witness ==
    /\ hist # <<>> /\ Last.op = "select_by_type" /\ Last.err = "none"
    /\ Last.args[1] = "express" /\ Last.rows = <<>>
    /\ OfType(SelectAllRows, "Express") # <<>>

----------------------------------------------------------------------------
(* C7 *)

C7_Step ==
    (StepOf("add_train") /\ Made.err = "none") =>
        /\ Len(ByType(trains', types', Made.args[2]))
              = Len(ByType(trains, types, Made.args[2])) + 1
        /\ Count(ByType(trains', types', Made.args[2]), ArgRecord(Made)) >= 1

C7_Calls ==
    \A i \in 1..(Len(hist) - 1) :
        (IsOkAdd(hist[i]) /\ hist[i + 1].op = "select_by_type"
                          /\ hist[i + 1].args[1] = hist[i].args[2]) =>
            /\ hist[i + 1].err = "none"
            /\ Count(hist[i + 1].rows, ArgRecord(hist[i])) >= 1
            /\ (i > 1 /\ hist[i - 1].op = "select_by_type"
                      /\ hist[i - 1].args = hist[i + 1].args
                      /\ hist[i - 1].err = "none") =>
                  Len(hist[i + 1].rows) = Len(hist[i - 1].rows) + 1

\* C7: after a successful add_train(destination, typ, num), select_by_type(typ)
\* returns a record {destination, typ, num}, and one record more than it
\* returned before the insert.
C7_RoundTrip == []C7_Calls /\ [][C7_Step]_vars

\* select_by_type(typ), a successful add_train of that typ, select_by_type(typ).
C7_Witness ==
    /\ Len(hist) = 4
    /\ hist[2].op = "select_by_type" /\ hist[2].err = "none"
    /\ IsOkAdd(hist[3]) /\ hist[3].args[2] = hist[2].args[1]
    /\ hist[4].op = "select_by_type" /\ hist[4].args = hist[2].args
    /\ Len(hist[4].rows) = 1

----------------------------------------------------------------------------
(* C8 *)

C8_Step ==
    (StepOf("create_db") /\ schema) =>
        /\ Made.err = "none"
        /\ schema'
        /\ UNCHANGED <<types, trains, type_st, train_st>>

C8_NoCollision ==
    \A i \in 1..Len(hist) : hist[i].err # "constraint"

\* C8: create_db on a store that has the schema raises nothing, keeps every
\* row and both sequences as they are, and no later add_train is rejected for
\* an identifier that is already taken.
C8_CreateDbIdempotent == []C8_NoCollision /\ [][C8_Step]_vars

\* create_db called again on a store holding a train, then another add_train.
C8_Witness ==
    /\ Len(hist) = 4
    /\ hist[1].op = "create_db" /\ IsOkAdd(hist[2])
    /\ hist[3].op = "create_db" /\ IsOkAdd(hist[4])
    /\ Len(trains) = 2

----------------------------------------------------------------------------
(* C9 *)

\* C9: an operation leaves no connection open that it opened, whether it
\* returns or raises (read here on the store that create_db has set up, where
\* only a rejected statement makes an operation raise).
C9_ConnectionsReleased ==
    [][(schema /\ Len(hist') = Len(hist) + 1) => open' = open]_vars

----------------------------------------------------------------------------
(* C10 *)

C10_Distinct ==
    /\ \A i, j \in 1..Len(types) : types[i].type_id = types[j].type_id => i = j
    /\ \A i, j \in 1..Len(trains) : trains[i].train_id = trains[j].train_id => i = j

C10_Step ==
    StepOf("add_train") =>
        /\ \E k \in {0, 1} : Extends(types', types, k)
        /\ \E k \in {0, 1} : Extends(trains', trains, k)
        /\ \A j \in (Len(types) + 1)..Len(types') : \A i \in 1..Len(types) :
              types'[j].type_id > types[i].type_id
        /\ \A j \in (Len(trains) + 1)..Len(trains') : \A i \in 1..Len(trains) :
              trains'[j].train_id > trains[i].train_id
        /\ TitleRows(types, Made.args[2]) # {} => type_st' = type_st
        /\ Made.err = "none" =>
              \E j \in TitleRows(types', Made.args[2]) :
                  trains'[Len(trains')].type_id = types'[j].type_id

\* C10: type ids are pairwise distinct and so are train ids; a new row's id
\* is greater than every id of its table; an add_train with a known title
\* leaves the type sequence alone; the new train row carries the id of the
\* type row found or created by the same call.
C10_Identifiers == []C10_Distinct /\ [][C10_Step]_vars

\* Two types and two trains, the second train added under a known title
\* after a failed insert.
C10_Witness ==
    /\ Len(types) = 2 /\ Len(trains) = 2
    /\ trains[2].type_id = types[2].type_id
    /\ \E i \in 1..Len(hist) : hist[i].op = "add_train" /\ hist[i].err = "conversion"

====
